---- MODULE Spec2Model ----
(***************************************************************************)
(* The Article data-access layer of NewsProject (app/models/article.py),   *)
(* its connection provider (app/config/database.py) and the start-up block *)
(* of app/app.py, as a state machine.                                      *)
(*                                                                         *)
(* The storage engine is PostgreSQL reached through psycopg2.  What the    *)
(* model takes from it is what the SQL text of the source asks for:        *)
(*   - SERIAL PRIMARY KEY: ids come from a sequence that starts at 1, is   *)
(*     never rolled back (an id handed to an object whose commit fails is  *)
(*     not handed out again), and is re-created with the table.  A         *)
(*     statement the engine rejects is taken not to have drawn from the    *)
(*     sequence: the gap it leaves in PostgreSQL is of the kind a failed   *)
(*     commit leaves here;                                                 *)
(*   - UNIQUE on direct_link: NULLs never collide, equal non-null values   *)
(*     do, and the statement that would create the collision raises;       *)
(*   - DEFAULT CURRENT_TIMESTAMP / SET updated_at = CURRENT_TIMESTAMP: the *)
(*     start time of the statement's transaction.  Every operation opens a *)
(*     connection of its own and runs one transaction on it, one operation *)
(*     after the other, so each transaction reads a timestamp later than   *)
(*     every timestamp handed out before (clock);                          *)
(*   - a transaction that is not committed leaves the table as it was.     *)
(* A storage error can be injected at every call of the driver an          *)
(* operation makes (connect, execute, fetchone/fetchall, commit).          *)
(***************************************************************************)
EXTENDS Integers, Sequences, FiniteSets, TLC

\* ---------------------------------------------------------------- bounds
\* Timestamps the storage clock may hand out before the model stops writing.
MaxClock == 3

\* ---------------------------------------------------------------- values
\* Python None of an Optional[int] / Optional[datetime] field.
None == -1
\* SQL NULL / Python None of direct_link.
NullLink == "NULL"
Links == {"u1"}
LinkVals == Links \cup {NullLink}
\* Titles are character sequences, so that ILIKE has something to match.
Titles == { <<>>, <<"A", "b">> }
Queries == { <<"B">>, <<"b", "a">> }
\* The in-memory Article object a caller holds.  Objects share nothing but the
\* table, and New puts any object a caller can construct in its place, so one
\* object at a time yields every sequence of calls on any number of them.
Objs == {"x"}
\* Ids a caller may pass to the constructor or to get_by_id: none, the one
\* integer that is false in Python, and the first ids the sequence hands out.
CallerIds == {None, 0, 1, 2}
\* The driver call at which the storage layer raises, "none" when it does not.
FailPoints == {"none", "connect", "execute", "fetch", "commit"}

VARIABLES
    tableExists,    \* the articles table is in the schema catalog
    rows,           \* the committed rows of the articles table
    seq,            \* next value of the SERIAL sequence articles_id_seq
    clock,          \* last timestamp CURRENT_TIMESTAMP handed out
    art,            \* the fields of each in-memory Article object
    boot,           \* position of the process in the start-up block
    ret             \* what the last operation returned, and how it ended

vars == <<tableExists, rows, seq, clock, art, boot, ret>>

db == <<tableExists, rows, seq, clock>>

\* ------------------------------------------------------- the Article object
\* Article.__init__: the six fields of an in-memory object.
Article(id, title, raw_content, direct_link, created_at, updated_at) ==
    [id |-> id, title |-> title, raw_content |-> raw_content,
     direct_link |-> direct_link, created_at |-> created_at,
     updated_at |-> updated_at]

\* Article.from_dict on a row of the cursor: every column under its own name.
FromDict(row) ==
    Article(row.id, row.title, row.raw_content, row.direct_link,
            row.created_at, row.updated_at)

\* Python truth value of self.id in `if self.id:` / `if not self.id:`.
Truthy(id) == id # None /\ id # 0

\* --------------------------------------------------------- the connection
\* db_config.get_connection: psycopg2.connect returns a connection or raises.
CanConnect(f) == f # "connect"

\* What the caller's last step handed back: the operation, the returned id
\* (save), bool (create_table, table_exists, test_connection, delete) or list
\* (the queries; an Optional[Article] is the list of at most one Article), and
\* the state, at the return, of the connection the operation acquired: "none"
\* when it acquired none, "closed" after conn.close(), "open" otherwise.
Ret(op, id, ok, list, conn) ==
    [op |-> op, id |-> id, ok |-> ok, list |-> list, conn |-> conn]

\* get_connection() raised: the except clause returns the failure sentinel,
\* and there is no connection to release.
NotConnected(op) == ret' = Ret(op, None, FALSE, <<>>, "none")

\* A later call raised: the except clause returns the failure sentinel and
\* cursor.close() / conn.close() are not reached.
Raised(op) == ret' = Ret(op, None, FALSE, <<>>, "open")

\* ------------------------------------------------------------ the storage
\* Faulty variant of UniqueFree: the column declared without UNIQUE.
UniqueFree_NotEnforced(link, id) == TRUE

\* direct_link VARCHAR(1000) UNIQUE: may a row with id `id` hold `link`?
UniqueFree(link, id) ==
    \/ link = NullLink
    \/ \A r \in rows : r.direct_link = link => r.id = id

\* Faulty variant of InsertedRow: updated_at filled by a later reading of the clock
\* than created_at.
InsertedRow_StampsApart(a, id, ts) ==
    [id |-> id, title |-> a.title, raw_content |-> a.raw_content,
     direct_link |-> a.direct_link, created_at |-> ts, updated_at |-> ts + 1]

\* The row INSERT ... RETURNING id, created_at, updated_at creates: id from
\* the sequence, both timestamps from DEFAULT CURRENT_TIMESTAMP.
InsertedRow(a, id, ts) ==
    [id |-> id, title |-> a.title, raw_content |-> a.raw_content,
     direct_link |-> a.direct_link, created_at |-> ts, updated_at |-> ts]

\* Faulty variant of UpdatedRow: the SET list without updated_at = CURRENT_TIMESTAMP.
UpdatedRow_StampKept(r, a, ts) ==
    [r EXCEPT !.title = a.title, !.raw_content = a.raw_content,
              !.direct_link = a.direct_link]

\* The row UPDATE ... SET title, raw_content, direct_link, updated_at =
\* CURRENT_TIMESTAMP leaves in place of r.
UpdatedRow(r, a, ts) ==
    [r EXCEPT !.title = a.title, !.raw_content = a.raw_content,
              !.direct_link = a.direct_link, !.updated_at = ts]

\* CURRENT_TIMESTAMP of the transaction an operation opens.
Now == clock + 1

\* The rows WHERE id = %s selects.
RowsWithId(id) == {r \in rows : r.id = id}

\* Faulty variant of FirstByCreatedDesc: ORDER BY created_at ASC.
FirstByCreatedAsc(S) == {r \in S : \A q \in S : r.created_at <= q.created_at}

\* ORDER BY created_at DESC: the rows of S that may come first.
FirstByCreatedDesc(S) == {r \in S : \A q \in S : r.created_at >= q.created_at}

\* The result sets SELECT * FROM articles [WHERE ...] ORDER BY created_at
\* DESC may produce for the rows S that match: rows with equal created_at
\* come in any order.
RECURSIVE Selected(_)
Selected(S) ==
    IF S = {} THEN { <<>> }
    ELSE UNION { { <<r>> \o t : t \in Selected(S \ {r}) } :
                 r \in FirstByCreatedDesc(S) }

\* [Article.from_dict(dict(row)) for row in results]
Articles(s) == [i \in 1 .. Len(s) |-> FromDict(s[i])]

\* title ILIKE '%q%': case-insensitive substring match.
Lower(c) == CASE c = "A" -> "a" [] c = "B" -> "b" [] OTHER -> c
Matches(title, q) ==
    \E k \in 0 .. (Len(title) - Len(q)) :
        \A j \in 1 .. Len(q) : Lower(title[k + j]) = Lower(q[j])

\* Faulty variant of DeletedSome: deleted_rows >= 0.
DeletedSome_AnyCount(deleted_rows) == deleted_rows >= 0

\* deleted_rows > 0
DeletedSome(deleted_rows) == deleted_rows > 0

\* --------------------------------------------------------------- Init
NoRet == Ret("__init__", None, FALSE, <<>>, "none")

Init ==
    /\ tableExists = FALSE
    /\ rows = {}
    /\ seq = 1
    /\ clock = 0
    /\ art = [o \in Objs |-> Article(None, <<>>, "", NullLink, None, None)]
    /\ boot = "start"
    /\ ret = NoRet

\* ------------------------------------------------------ callers' own steps
\* A caller constructs an Article, Article(id=..., direct_link=...), in place
\* of the object it held; title and raw_content take their defaults.
New(o, id, link) ==
    /\ boot = "serving"
    /\ art' = [art EXCEPT ![o] = Article(id, <<>>, "", link, None, None)]
    /\ ret' = Ret("__init__", None, FALSE, <<>>, "none")
    /\ UNCHANGED <<db, boot>>

\* A caller assigns article.title.
SetTitle(o, title) ==
    /\ boot = "serving"
    /\ art[o].title # title
    /\ art' = [art EXCEPT ![o].title = title]
    /\ ret' = Ret("setattr", None, FALSE, <<>>, "none")
    /\ UNCHANGED <<db, boot>>

\* A caller assigns article.direct_link.
SetLink(o, link) ==
    /\ boot = "serving"
    /\ art[o].direct_link # link
    /\ art' = [art EXCEPT ![o].direct_link = link]
    /\ ret' = Ret("setattr", None, FALSE, <<>>, "none")
    /\ UNCHANGED <<db, boot>>

\* ------------------------------------------------------------------ save
\* Article._insert.  The object's id and timestamps are assigned from the
\* RETURNING row before conn.commit().
Insert(o, f) ==
    LET a == art[o]
        row == InsertedRow(a, seq, Now) IN
    IF ~CanConnect(f) THEN
        /\ NotConnected("save")
        /\ UNCHANGED <<db, art, boot>>
    ELSE IF f = "execute" \/ ~tableExists THEN
        /\ Raised("save")
        /\ UNCHANGED <<db, art, boot>>
    ELSE IF ~UniqueFree(a.direct_link, None) THEN
        /\ Raised("save")
        /\ UNCHANGED <<db, art, boot>>
    ELSE IF f = "fetch" THEN
        /\ Raised("save")
        /\ UNCHANGED <<db, art, boot>>
    ELSE
        \* the RETURNING row reaches the object
        /\ clock < MaxClock
        /\ seq' = seq + 1
        /\ clock' = Now
        /\ art' = [art EXCEPT ![o].id = row.id,
                              ![o].created_at = row.created_at,
                              ![o].updated_at = row.updated_at]
        /\ IF f = "commit" THEN
               /\ Raised("save")
               /\ UNCHANGED <<tableExists, rows, boot>>
           ELSE
               /\ rows' = rows \cup {row}
               /\ ret' = Ret("save", row.id, FALSE, <<>>, "closed")
               /\ UNCHANGED <<tableExists, boot>>

\* Article._update.
Update(o, f) ==
    LET a == art[o]
        hit == RowsWithId(a.id) IN
    IF ~CanConnect(f) THEN
        /\ NotConnected("save")
        /\ UNCHANGED <<db, art, boot>>
    ELSE IF f = "execute" \/ ~tableExists THEN
        /\ Raised("save")
        /\ UNCHANGED <<db, art, boot>>
    ELSE IF hit # {} /\ ~UniqueFree(a.direct_link, a.id) THEN
        /\ Raised("save")
        /\ UNCHANGED <<db, art, boot>>
    ELSE IF f = "fetch" THEN
        /\ Raised("save")
        /\ UNCHANGED <<db, art, boot>>
    ELSE IF hit = {} THEN
        \* fetchone() is None: close, no commit
        /\ ret' = Ret("save", None, FALSE, <<>>, "closed")
        /\ UNCHANGED <<db, art, boot>>
    ELSE
        /\ clock < MaxClock
        /\ clock' = Now
        /\ art' = [art EXCEPT ![o].updated_at = Now]
        /\ IF f = "commit" THEN
               /\ Raised("save")
               /\ UNCHANGED <<tableExists, rows, seq, boot>>
           ELSE
               /\ rows' = (rows \ hit) \cup {UpdatedRow(r, a, Now) : r \in hit}
               /\ ret' = Ret("save", a.id, FALSE, <<>>, "closed")
               /\ UNCHANGED <<tableExists, seq, boot>>

\* Article.save: insert or update on the truth value of self.id.
Save(o, f) ==
    /\ boot = "serving"
    /\ IF Truthy(art[o].id) THEN Update(o, f) ELSE Insert(o, f)

\* ---------------------------------------------------------------- delete
\* Article.delete.  rowcount is an attribute: nothing to fetch.
Delete(o, f) ==
    LET a == art[o]
        hit == RowsWithId(a.id) IN
    /\ boot = "serving"
    /\ f # "fetch"
    /\ IF ~Truthy(a.id) THEN
           /\ ret' = Ret("delete", None, FALSE, <<>>, "none")
           /\ UNCHANGED <<db, art, boot>>
       ELSE IF ~CanConnect(f) THEN
           /\ NotConnected("delete")
           /\ UNCHANGED <<db, art, boot>>
       ELSE IF f = "execute" \/ ~tableExists THEN
           /\ Raised("delete")
           /\ UNCHANGED <<db, art, boot>>
       ELSE IF f = "commit" THEN
           /\ Raised("delete")
           /\ UNCHANGED <<db, art, boot>>
       ELSE
           /\ rows' = rows \ hit
           /\ ret' = Ret("delete", None, DeletedSome(Cardinality(hit)), <<>>, "closed")
           /\ UNCHANGED <<tableExists, seq, clock, art, boot>>

\* ---------------------------------------------------------------- queries
\* The shape every read shares: connect, execute, fetch, close, return; an
\* exception on the way returns the failure sentinel.  `list` is what the
\* fetch yields, `ok` the bool built from it.
Read(op, f, needsTable, ok, list) ==
    /\ f # "commit"
    /\ IF ~CanConnect(f) THEN NotConnected(op)
       ELSE IF f = "execute" \/ (needsTable /\ ~tableExists) THEN Raised(op)
       ELSE IF f = "fetch" THEN Raised(op)
       ELSE ret' = Ret(op, None, ok, list, "closed")

\* DatabaseConfig.test_connection: SELECT 1 yields a row.
TestConnectionCall(f) == Read("test_connection", f, FALSE, TRUE, <<>>)

\* Article.table_exists: the catalog query yields a row or none.
TableExistsCall(f) == Read("table_exists", f, FALSE, tableExists, <<>>)

\* The column descriptors of the articles table, by ordinal position.
Columns ==
    << "id", "title", "raw_content", "direct_link", "created_at", "updated_at" >>

TestConnection(f) ==
    /\ boot = "serving"
    /\ TestConnectionCall(f)
    /\ UNCHANGED <<db, art, boot>>

TableExists(f) ==
    /\ boot = "serving"
    /\ TableExistsCall(f)
    /\ UNCHANGED <<db, art, boot>>

\* Article.get_table_structure: the catalog has no columns for a missing table.
GetTableStructure(f) ==
    /\ boot = "serving"
    /\ Read("get_table_structure", f, FALSE, FALSE,
            IF tableExists THEN Columns ELSE <<>>)
    /\ UNCHANGED <<db, art, boot>>

\* Article.get_all.
GetAll(f) ==
    /\ boot = "serving"
    /\ \E s \in Selected(rows) : Read("get_all", f, TRUE, FALSE, Articles(s))
    /\ UNCHANGED <<db, art, boot>>

\* Article.get_by_id: fetchone() of the rows with that id.
GetById(id, f) ==
    /\ boot = "serving"
    /\ \E s \in Selected(RowsWithId(id)) :
           Read("get_by_id", f, TRUE, FALSE, Articles(s))
    /\ UNCHANGED <<db, art, boot>>

\* Article.get_by_link: WHERE direct_link = %s is never true of a NULL.
GetByLink(link, f) ==
    /\ boot = "serving"
    /\ \E s \in Selected({r \in rows : link # NullLink /\ r.direct_link = link}) :
           Read("get_by_link", f, TRUE, FALSE, Articles(s))
    /\ UNCHANGED <<db, art, boot>>

\* Article.search_by_title.
SearchByTitle(q, f) ==
    /\ boot = "serving"
    /\ \E s \in Selected({r \in rows : Matches(r.title, q)}) :
           Read("search_by_title", f, TRUE, FALSE, Articles(s))
    /\ UNCHANGED <<db, art, boot>>

\* ----------------------------------------------------------- create_table
\* Faulty variant of DropAndCreate: CREATE TABLE IF NOT EXISTS without the DROP.
DropAndCreate_IfNotExists(old) == old

\* DROP TABLE IF EXISTS articles; CREATE TABLE articles (...): the rows the
\* new table holds, given the rows of the old one.
DropAndCreate(old) == {}

\* Article.create_table: drop, create, index and commit on one connection,
\* then Article.table_exists() on a connection of its own (failing at f2).
CreateTableCall(f, f2) ==
    /\ f # "fetch"
    /\ f2 # "commit"
    /\ IF ~CanConnect(f) THEN
           /\ NotConnected("create_table")
           /\ UNCHANGED db
       ELSE IF f \in {"execute", "commit"} THEN
           /\ Raised("create_table")
           /\ UNCHANGED db
       ELSE
           /\ tableExists' = TRUE
           /\ rows' = DropAndCreate(rows)
           /\ seq' = 1
           /\ UNCHANGED clock
           /\ IF ~CanConnect(f2) THEN ret' = Ret("create_table", None, FALSE, <<>>, "closed")
              ELSE IF f2 \in {"execute", "fetch"} THEN Raised("create_table")
              ELSE ret' = Ret("create_table", None, tableExists', <<>>, "closed")

CreateTable(f, f2) ==
    /\ boot = "serving"
    /\ CreateTableCall(f, f2)
    /\ UNCHANGED <<art, boot>>

\* ---------------------------------------------------------------- start-up
\* app.py, __main__: if db_config.test_connection(): ...
StartupTestConnection(f) ==
    /\ boot = "start"
    /\ TestConnectionCall(f)
    /\ boot' = IF ret'.ok THEN "connected" ELSE "serving"
    /\ UNCHANGED <<db, art>>

\* ... if not Article.table_exists(): ...
StartupTableExists(f) ==
    /\ boot = "connected"
    /\ TableExistsCall(f)
    /\ boot' = IF ~ret'.ok THEN "creating" ELSE "serving"
    /\ UNCHANGED <<db, art>>

\* ... Article.create_table(); then app.run().
StartupCreateTable(f, f2) ==
    /\ boot = "creating"
    /\ CreateTableCall(f, f2)
    /\ boot' = "serving"
    /\ UNCHANGED art

\* The process ends and is started again: its objects are gone, the database
\* is not.
Restart ==
    /\ boot = "serving"
    /\ boot' = "start"
    /\ art' = [o \in Objs |-> Article(None, <<>>, "", NullLink, None, None)]
    /\ ret' = NoRet
    /\ UNCHANGED db

\* ------------------------------------------------------------------ Next
\* The driver calls each operation makes, hence where it can fail.
ReadFails == {"none", "connect", "execute", "fetch"}
WriteFails == {"none", "connect", "execute", "commit"}

\* The start-up block, and the process being restarted.
Boot ==
    \/ \E f \in ReadFails : StartupTestConnection(f)
    \/ \E f \in ReadFails : StartupTableExists(f)
    \/ \E f \in WriteFails, f2 \in ReadFails :
           (f # "none" => f2 = "none") /\ StartupCreateTable(f, f2)
    \/ Restart

\* What callers do to the objects they hold.
Caller ==
    \/ \E o \in Objs, id \in CallerIds, l \in LinkVals : New(o, id, l)
    \/ \E o \in Objs, t \in Titles : SetTitle(o, t)
    \/ \E o \in Objs, l \in LinkVals : SetLink(o, l)

\* The operations that change the table.
Write ==
    \/ \E o \in Objs, f \in FailPoints : Save(o, f)
    \/ \E o \in Objs, f \in WriteFails : Delete(o, f)
    \/ \E f \in WriteFails, f2 \in ReadFails :
           (f # "none" => f2 = "none") /\ CreateTable(f, f2)

\* The reads.
Query ==
    \/ \E f \in ReadFails : TestConnection(f)
    \/ \E f \in ReadFails : TableExists(f)
    \/ \E f \in ReadFails : GetTableStructure(f)
    \/ \E f \in ReadFails : GetAll(f)
    \/ \E id \in CallerIds, f \in ReadFails : GetById(id, f)
    \/ \E l \in LinkVals, f \in ReadFails : GetByLink(l, f)
    \/ \E q \in Queries, f \in ReadFails : SearchByTitle(q, f)

Next == Boot \/ Caller \/ Write \/ Query

\* Every operation of the repository and the start-up block.
Spec == Init /\ [][Next]_vars

\* The reads change neither the table, the sequence and the clock nor the
\* objects.  The specifications below are Spec without the reads, and with
\* the reads a property of the table is observed through.
NextWrite == Boot \/ Caller \/ Write
SpecWrite == Init /\ [][NextWrite]_vars

NextGetAll ==
    \/ NextWrite
    \/ \E f \in ReadFails : TableExists(f)
    \/ \E f \in ReadFails : GetAll(f)
SpecGetAll == Init /\ [][NextGetAll]_vars

NextGetById == NextWrite \/ \E id \in CallerIds, f \in ReadFails : GetById(id, f)
SpecGetById == Init /\ [][NextGetById]_vars

\* ================================================================ claims
\* The rows of the table that hold link l.
LinkHolders(l) == {r \in rows : r.direct_link = l}

\* save() on object a would put its direct_link on a second row: an insert
\* while a row holds it, or an update of one row while another row holds it.
WouldDuplicate(a) ==
    /\ a.direct_link # NullLink
    /\ IF Truthy(a.id)
       THEN RowsWithId(a.id) # {}
            /\ \E r \in LinkHolders(a.direct_link) : r.id # a.id
       ELSE LinkHolders(a.direct_link) # {}

\* The operation of this step returned normally, no driver call having raised.
Returned == ret'.conn = "closed"

C5_UpdateRefreshesOnlyUpdatedAt ==
    [][ ret'.op = "save" /\ ret'.id # None
          => \A o \in Objs, f \in FailPoints :
               Truthy(art[o].id) /\ Save(o, f)
                => /\ ret'.id = art[o].id
                   /\ \E r \in rows, r2 \in rows' :
                         /\ r.id = art[o].id
                         /\ r2.id = r.id
                         /\ r2.created_at = r.created_at
                         /\ r2.updated_at > r.updated_at
                         /\ r2.title = art[o].title
                         /\ rows' \ {r2} = rows \ {r}
      ]_vars

\* C5 witness: the object's title was changed after its insert, its save()
\* returned its id, and its row carries the new title and a later updated_at.
C5_Witness ==
    /\ ret.op = "save"
    /\ \E o \in Objs, r \in rows :
          /\ ret.id = art[o].id
          /\ r.id = art[o].id
          /\ r.title = art[o].title /\ r.title # <<>>
          /\ r.updated_at > r.created_at
          /\ art[o].created_at = r.created_at
          /\ art[o].updated_at = r.updated_at

\* C6: every row has updated_at >= created_at in every reachable state; a
\* save() that inserts (the object has no id, the call returns an id) returns
\* a positive id, and the one new row and the object carry that id and
\* created_at = updated_at.
C6_InsertStamps ==
    /\ [](\A r \in rows : r.updated_at >= r.created_at)
    /\ [][ ret'.op = "save" /\ ret'.id # None
             => \A o \in Objs, f \in FailPoints :
                  art[o].id = None /\ Save(o, f)
                   => /\ ret'.id > 0
                      /\ \E r \in rows' :
                            /\ rows' = rows \cup {r} /\ r \notin rows
                            /\ r.id = ret'.id
                            /\ r.created_at = r.updated_at
                            /\ art'[o].id = r.id
                            /\ art'[o].created_at = r.created_at
                            /\ art'[o].updated_at = r.updated_at
         ]_vars

\* C6 witness: an insert has just returned the id of a row whose two
\* timestamps are equal, while another row has been updated since its insert.
C6_Witness ==
    /\ ret.op = "save" /\ ret.id > 0
    /\ \E o \in Objs, r \in rows :
          /\ r.id = ret.id /\ art[o].id = r.id
          /\ r.created_at = r.updated_at
          /\ art[o].created_at = art[o].updated_at
    /\ \E r \in rows : r.updated_at > r.created_at

\* C7: delete() returns True exactly when it removed the one row with the
\* object's id, and otherwise leaves the rows as they are; an id whose row is
\* gone gets no row again whatever is saved or deleted afterwards, short of
\* create_table() making a new table (a new sequence); so get_by_id of an id
\* whose row is gone returns None (it returns an Article only for an id that
\* has a row) and delete() on it returns False; and
\* delete() on an object without id returns False, having acquired no
\* connection and changed nothing.
C7_DeleteOnce ==
    [][ /\ ret'.op = "delete"
            => \A o \in Objs, f \in WriteFails :
                Delete(o, f)
                  => LET hit == RowsWithId(art[o].id) IN
                     /\ ret'.ok <=> (Cardinality(hit) = 1 /\ rows' = rows \ hit)
                     /\ ret'.ok => RowsWithId(art[o].id)' = {}
                     /\ ~ret'.ok => rows' = rows
                     /\ hit = {} => ~ret'.ok
                     /\ art[o].id = None => ~ret'.ok /\ ret'.conn = "none"
        /\ rows' # rows /\ ret'.op # "create_table"
              => \A k \in 1 .. MaxClock :
                     k < seq /\ RowsWithId(k) = {} => RowsWithId(k)' = {}
        /\ ret'.op = "get_by_id" /\ ret'.list # <<>>
              => \A k \in CallerIds, f \in ReadFails :
                     GetById(k, f) => RowsWithId(k) # {}
      ]_vars

\* C7 witness: delete() has just returned True for the object's id, no row
\* has that id, and another row is still there.
C7_Witness ==
    /\ ret.op = "delete" /\ ret.ok
    /\ \E o \in Objs : Truthy(art[o].id) /\ RowsWithId(art[o].id) = {}
    /\ rows # {}

\* C8: a create_table() during which no driver call raises returns True,
\* leaves the table existing and without rows however many it held, and a
\* table_exists() or get_all() the storage layer answers right after it
\* returns True, respectively the empty list.
C8_CreateTableResets ==
    [][ /\ ret'.op = "create_table"
           /\ (CreateTable("none", "none") \/ StartupCreateTable("none", "none"))
              => ret'.ok /\ tableExists' /\ rows' = {}
        /\ ret.op = "create_table" /\ ret.ok /\ ret'.op = "table_exists"
           /\ TableExists("none")
              => ret'.ok
        /\ ret.op = "create_table" /\ ret.ok /\ ret'.op = "get_all"
           /\ GetAll("none")
              => ret'.list = <<>> /\ Returned
      ]_vars

\* C8 witness: create_table() has just returned True on a table that had been
\* written to (the caller's object was inserted and later updated, the
\* sequence starts again), and the table is there without rows.
C8_Witness ==
    /\ ret.op = "create_table" /\ ret.ok
    /\ tableExists /\ rows = {}
    /\ seq = 1 /\ clock >= 2
    /\ \E o \in Objs : /\ Truthy(art[o].id) /\ art[o].created_at # None
                       /\ art[o].updated_at > art[o].created_at

\* C9: a get_all() the storage layer answers returns every row once, in
\* strictly descending created_at, which is the reverse of the order of
\* insertion (descending id).
C9_GetAllNewestFirst ==
    [][ ret'.op = "get_all" /\ Returned
          => \A f \in ReadFails :
             GetAll(f)
                => LET l == ret'.list IN
                   /\ Len(l) = Cardinality(rows)
                   /\ {l[i] : i \in 1 .. Len(l)} = {FromDict(r) : r \in rows}
                   /\ \A i, j \in 1 .. Len(l) :
                         i < j => /\ l[i].created_at > l[j].created_at
                                  /\ l[i].id > l[j].id
      ]_vars

\* C9 witness: get_all() has just returned three Articles.
C9_Witness ==
    /\ ret.op = "get_all"
    /\ Len(ret.list) = 3
    /\ Cardinality(rows) = 3

\* The operations of the Article repository.
RepositoryOps ==
    {"create_table", "table_exists", "get_table_structure", "save", "get_all",
     "get_by_id", "get_by_link", "delete", "search_by_title"}

\* C2 (as stated): whenever an operation of the repository has returned, the
\* connection it acquired is no longer open.
C2_ConnectionReleased == ret.op \in RepositoryOps => ret.conn # "open"

\* C3 (as stated): for an object created without id, save() sets the id
\* exactly when its INSERT is committed, and a save() that returns None leaves
\* the id absent.
C3_IdIffInsertCommitted ==
    [][ \A o \in Objs, f \in FailPoints :
            ret'.op = "save" /\ art[o].id = None /\ Save(o, f)
                => /\ art'[o].id # None <=> \E r \in rows' \ rows : r.id = art'[o].id
                   /\ ret'.id = None => art'[o].id = None
      ]_vars

\* C4 (as stated): save() on an object whose id matches no row returns None,
\* inserts, changes and removes no row, and leaves the object's updated_at.
C4_SaveUnknownIdIsNoOp ==
    [][ \A o \in Objs, f \in FailPoints :
            ret'.op = "save" /\ art[o].id # None /\ RowsWithId(art[o].id) = {}
            /\ Save(o, f)
                => /\ ret'.id = None
                   /\ rows' = rows
                   /\ art'[o].updated_at = art[o].updated_at
      ]_vars

\* C10 (as stated): no step of the start-up block drops an existing table
\* that holds rows.
C10_StartupKeepsRows ==
    [][ boot # "serving" /\ tableExists /\ rows # {}
            => tableExists' /\ rows' = rows
      ]_vars

====
